---- MODULE Spec2Model ----
(***************************************************************************)
(* Model of the pincode-checker serverless functions:                      *)
(*   src/netlify/functions/checkPincode.js  (the CORS-aware handler)       *)
(*   src/unnamed/part_000                   (the earlier fetch handler)    *)
(* One request is followed from its invocation to the response (or to the  *)
(* exception that leaves the handler).  The two outbound calls are the     *)
(* awaits of the handler; each reply is an input drawn from a bounded set. *)
(***************************************************************************)
EXTENDS Integers, Sequences, FiniteSets, TLC

(* ------------------------------------------------------------------ *)
(* Bounds of the model.                                                 *)
(* ------------------------------------------------------------------ *)
\* side of the coordinate grid of the findNearestLocation specification
GridMax == 2
\* most variants in a product of the commerce reply
MaxVariants == 2
\* most inventory levels in a product, over all its variants
MaxRecords == 3

(* ------------------------------------------------------------------ *)
(* JavaScript numbers: a finite number, NaN or Infinity.                *)
(* ------------------------------------------------------------------ *)
Num(n) == [num |-> n]
NaN == [nan |-> TRUE]
Infinity == [inf |-> TRUE]

\* a < b on JavaScript numbers (every comparison with NaN is false)
LessThan(a, b) ==
  IF a = NaN \/ b = NaN THEN FALSE
  ELSE IF a = Infinity THEN FALSE
  ELSE IF b = Infinity THEN TRUE
  ELSE a.num < b.num

Null == [null |-> TRUE]

RECURSIVE SqrtSearch(_, _, _)
SqrtSearch(n, lo, hi) ==
  IF lo >= hi THEN lo
  ELSE LET mid == (lo + hi + 1) \div 2
       IN IF mid * mid <= n THEN SqrtSearch(n, mid, hi) ELSE SqrtSearch(n, lo, mid - 1)

\* floor of the square root (46340 squared is the largest square of 32 bits)
ISqrt(n) == SqrtSearch(n, 0, IF n > 46340 THEN 46340 ELSE n)

\* Math.round of the square root
RoundSqrt(n) == (ISqrt(4 * n) + 1) \div 2

\* geolib getDistance on the planar grid: the distance rounded to one unit of
\* accuracy; a NaN coordinate gives NaN (a geolib that throws instead is a choice
\* of the action that calls findNearestLocation)
getDistance(from, to) ==
  IF from.latitude = NaN \/ from.longitude = NaN THEN NaN
  ELSE LET dLat == from.latitude.num - to.latitude.num
           dLon == from.longitude.num - to.longitude.num
       IN Num(RoundSqrt(dLat * dLat + dLon * dLon))

Coords(lat, lon) == [latitude |-> Num(lat), longitude |-> Num(lon)]

\* Object.entries of an object whose keys are all integer-like strings: the
\* entries in ascending numeric key order, whatever the order of the literal
RECURSIVE ObjectEntries(_)
ObjectEntries(obj) ==
  IF DOMAIN obj = {} THEN <<>>
  ELSE LET k == CHOOSE x \in DOMAIN obj : \A y \in DOMAIN obj : x <= y
           rest == [y \in DOMAIN obj \ {k} |-> obj[y]]
       IN <<[pincode |-> k, coords |-> obj[k]]>> \o ObjectEntries(rest)

\* a callback that compares with <=, so that a tie replaces the minimum
NearestStep_ReplacesOnTie(acc, e, userCoords) ==
  LET distance == getDistance(userCoords, e.coords)
  IN IF distance # NaN /\ ~LessThan(acc.minDistance, distance)
     THEN [minDistance |-> distance,
           nearestLocation |-> [pincode |-> e.pincode, coords |-> e.coords]]
     ELSE acc

\* a callback that never updates minDistance, so that every entry replaces the last
NearestStep_KeepsLast(acc, e, userCoords) ==
  LET distance == getDistance(userCoords, e.coords)
  IN IF LessThan(distance, acc.minDistance)
     THEN [minDistance |-> acc.minDistance,
           nearestLocation |-> [pincode |-> e.pincode, coords |-> e.coords]]
     ELSE acc

\* one call of the forEach callback
NearestStep(acc, e, userCoords) ==
  LET distance == getDistance(userCoords, e.coords)
  IN IF LessThan(distance, acc.minDistance)
     THEN [minDistance |-> distance,
           nearestLocation |-> [pincode |-> e.pincode, coords |-> e.coords]]
     ELSE acc

RECURSIVE NearestFold(_, _, _)
NearestFold(acc, entries, userCoords) ==
  IF entries = <<>> THEN acc
  ELSE NearestFold(NearestStep(acc, Head(entries), userCoords),
                   Tail(entries), userCoords)

findNearestLocation(userCoords, warehouses) ==
  NearestFold([minDistance |-> Infinity, nearestLocation |-> Null],
              ObjectEntries(warehouses), userCoords).nearestLocation

(* ------------------------------------------------------------------ *)
(* The fixed registries of the handlers.  Coordinates are in tenths of  *)
(* a degree (23.0225 -> 230); pincodes are the keys as numbers.         *)
(* ------------------------------------------------------------------ *)
warehouseCoordinates ==
  (382213 :> Coords(230, 726)) @@   \* Ahmedabad
  (110042 :> Coords(287, 771)) @@   \* Delhi
  (562123 :> Coords(130, 776)) @@   \* Bangalore
  (131028 :> Coords(290, 771))      \* Kundli

warehouseLocationMap ==
  [n \in {"Ahmedabad Warehouse", "Delhi Warehouse", "Emiza Blr Warehouse", "Kundli Warehouse"} |->
     CASE n = "Ahmedabad Warehouse" -> 382213
       [] n = "Delhi Warehouse" -> 110042
       [] n = "Emiza Blr Warehouse" -> 562123
       [] n = "Kundli Warehouse" -> 131028]

\* warehouseLocationMap[name] === pincode (an unlisted name gives undefined)
MapsTo(name, pincode) ==
  name \in DOMAIN warehouseLocationMap /\ warehouseLocationMap[name] = pincode

(* ------------------------------------------------------------------ *)
(* Requests.                                                            *)
(* ------------------------------------------------------------------ *)
Undefined == [undefined |-> TRUE]
Str(t) == [str |-> t]

\* !v for a query parameter: undefined and the empty string are falsy
Falsy(v) == v = Undefined \/ v = Str("")

ParamValues(t) == {Undefined, Str(""), Str(t)}

QueryObjects ==
  [pincode : ParamValues("400001"), productId : ParamValues("gid://shopify/Product/1")]

Events ==
  [httpMethod : {"GET", "OPTIONS"}, queryStringParameters : {Null} \cup QueryObjects]

(* ------------------------------------------------------------------ *)
(* Replies of the geocoding lookup.                                     *)
(* ------------------------------------------------------------------ *)
NetworkFailure == [kind |-> "networkFailure"]
Unparsable == [unparsable |-> TRUE]      \* a non-empty body that is not JSON
EmptyBody == [empty |-> TRUE]            \* an empty body
ErrorObject == [errors |-> TRUE]         \* a JSON object carrying errors only

\* what the lookup answers for: Mumbai, New Delhi, Chennai
GeoPoints == {<<190, 728>>, <<286, 772>>, <<131, 803>>}

\* a match: lat and lon are decimal strings, held by the number they spell
Match(p) == [lat |-> [text |-> p[1]], lon |-> [text |-> p[2]]]
JunkMatch == [display_name |-> "x"]      \* a match without lat and lon

GeoMatchLists ==
  {<<>>, <<JunkMatch>>} \cup {<<Match(p)>> : p \in GeoPoints}
    \cup {<<Match(<<190, 728>>), Match(<<286, 772>>)>>}

\* A reply is a network failure or an HTTP response.  A non-2xx response carries
\* an error body (the lookup answers errors with an error object or a page).
GeoReplies ==
  {NetworkFailure}
    \cup {[kind |-> "http", ok |-> FALSE, body |-> b] : b \in {Unparsable, ErrorObject}}
    \cup {[kind |-> "http", ok |-> TRUE, body |-> b] :
            b \in {Unparsable, EmptyBody, ErrorObject} \cup {[matches |-> m] : m \in GeoMatchLists}}

Field(obj, f) == IF f \in DOMAIN obj THEN obj[f] ELSE Undefined

\* parseFloat of a field of a match
parseFloat(v) == IF v = Undefined THEN NaN ELSE Num(v.text)

Thrown == [thrown |-> TRUE]

\* the try block of getCoordinatesFromPincode once the body is in `data`:
\* the coordinates of data[0], or Thrown
CoordinatesOfData(data) ==
  IF data = ErrorObject THEN Thrown                       \* data.length is undefined
  ELSE IF data = Unparsable                                \* a string: data[0] is a character
    THEN [latitude |-> NaN, longitude |-> NaN]
  ELSE IF data = EmptyBody THEN Thrown                     \* "".length is 0
  ELSE IF Len(data.matches) > 0
    THEN [latitude |-> parseFloat(Field(data.matches[1], "lat")),
          longitude |-> parseFloat(Field(data.matches[1], "lon"))]
  ELSE Thrown

\* a lookup that answers a failure with the coordinates of a default place
getCoordinatesFromPincode_DefaultsOnFailure(reply) ==
  LET r == IF reply.kind = "networkFailure" \/ ~reply.ok THEN Thrown
           ELSE CoordinatesOfData(reply.body)
  IN IF r = Thrown THEN Coords(287, 771) ELSE r

\* checkPincode.js: axios rejects a network failure and a non-2xx response, and
\* hands over an unparsable body as a string; every failure is swallowed into null
getCoordinatesFromPincode(reply) ==
  LET r == IF reply.kind = "networkFailure" \/ ~reply.ok THEN Thrown
           ELSE CoordinatesOfData(reply.body)
  IN IF r = Thrown THEN Null ELSE r

\* part_000: fetch rejects a network failure only, response.json() throws on a
\* body that is not JSON; every failure is rethrown
Part000_getCoordinatesFromPincode(reply) ==
  IF reply.kind = "networkFailure" THEN Thrown
  ELSE IF reply.body = Unparsable \/ reply.body = EmptyBody THEN Thrown
  ELSE CoordinatesOfData(reply.body)

(* ------------------------------------------------------------------ *)
(* Replies of the commerce inventory query.                             *)
(* ------------------------------------------------------------------ *)
Level(name, quantities) == [locationName |-> name, quantities |-> quantities]

\* inventory-location entries the upstream may return; quantities is the list
\* asked for with names: "available", empty when the entry is absent
LevelValues ==
  { Level("Ahmedabad Warehouse", <<2>>), Level("Ahmedabad Warehouse", <<0>>),
    Level("Delhi Warehouse", <<3>>), Level("Delhi Warehouse", <<>>),
    Level("Mumbai Store", <<1>>) }

\* the lists of k variants holding at most n levels in all
RECURSIVE VariantLists(_, _)
VariantLists(k, n) ==
  IF k = 0 THEN {<<>>}
  ELSE UNION { { <<[inventoryLevels |-> ls]>> \o rest :
                   ls \in [1..m -> LevelValues], rest \in VariantLists(k - 1, n - m) } :
               m \in 0..n }

Products == { [variants |-> vs] : vs \in UNION {VariantLists(k, MaxRecords) : k \in 0..MaxVariants} }

MalformedProduct == [id |-> "gid://shopify/Product/1"]   \* a product without variants

ShopifyBodies ==
  {Unparsable, EmptyBody, ErrorObject, [data |-> [product |-> Null]],
   [data |-> [product |-> MalformedProduct]]}
    \cup {[data |-> [product |-> p]] : p \in Products}

ShopifyReplies ==
  {NetworkFailure}
    \cup {[kind |-> "http", ok |-> FALSE, body |-> b] : b \in {Unparsable, ErrorObject}}
    \cup {[kind |-> "http", ok |-> TRUE, body |-> b] : b \in ShopifyBodies}

\* level.node.quantities[0]?.quantity || 0
QuantityOf(level) ==
  IF Len(level.quantities) = 0 THEN 0
  ELSE IF level.quantities[1] = 0 THEN 0 ELSE level.quantities[1]

\* the .map over one variant's inventory levels
RECURSIVE MapLevels(_)
MapLevels(levels) ==
  IF levels = <<>> THEN <<>>
  ELSE <<[locationName |-> Head(levels).locationName, quantity |-> QuantityOf(Head(levels))]>>
         \o MapLevels(Tail(levels))

\* an extraction that reads the first variant only
FlatMapVariants_FirstVariantOnly(variants) ==
  IF variants = <<>> THEN <<>> ELSE MapLevels(Head(variants).inventoryLevels)

\* product.variants.edges.flatMap(...)
RECURSIVE FlatMapVariants(_)
FlatMapVariants(variants) ==
  IF variants = <<>> THEN <<>>
  ELSE MapLevels(Head(variants).inventoryLevels) \o FlatMapVariants(Tail(variants))

\* a fallback search that takes a record with no stock for stocked
RECURSIVE FindFallback_AcceptsZero(_)
FindFallback_AcceptsZero(levels) ==
  IF levels = <<>> THEN Undefined
  ELSE IF Head(levels).quantity >= 0 THEN Head(levels)
  ELSE FindFallback_AcceptsZero(Tail(levels))

\* Array.prototype.find with the predicate of the fallback search
RECURSIVE FindFallback(_)
FindFallback(levels) ==
  IF levels = <<>> THEN Undefined
  ELSE IF Head(levels).quantity > 0 THEN Head(levels)
  ELSE FindFallback(Tail(levels))

\* a primary search that forgets the warehouse and takes any stocked record
FindAvailable_AnyWarehouse(levels, pincode) == FindFallback(levels)

\* a primary search that forgets the stock and takes the nearest warehouse's record
RECURSIVE FindAvailable_IgnoresStock(_, _)
FindAvailable_IgnoresStock(levels, pincode) ==
  IF levels = <<>> THEN Undefined
  ELSE IF MapsTo(Head(levels).locationName, pincode) THEN Head(levels)
  ELSE FindAvailable_IgnoresStock(Tail(levels), pincode)

\* Array.prototype.find with the predicate of the primary search
RECURSIVE FindAvailable(_, _)
FindAvailable(levels, pincode) ==
  IF levels = <<>> THEN Undefined
  ELSE IF MapsTo(Head(levels).locationName, pincode) /\ Head(levels).quantity > 0
    THEN Head(levels)
  ELSE FindAvailable(Tail(levels), pincode)

(* ------------------------------------------------------------------ *)
(* State.                                                               *)
(* ------------------------------------------------------------------ *)
VARIABLES
  entry,            \* which function was invoked: "none", "netlify", "part000"
  event,            \* the request
  pc,               \* "idle", "geocoding" (awaiting the lookup), "shopify", "done"
  outcome,          \* "pending", "returned", "threw" (an exception left the handler)
  response,         \* the returned object, Null before
  geoCalls,         \* geocoding calls issued in this request
  shopifyCalls,     \* commerce calls issued in this request
  geoReply,         \* the lookup's reply, Null before
  shopifyReply,     \* the commerce reply, Null before
  userCoordinates,  \* the handler's userCoordinates
  inventoryLevels,  \* Extracted(the records), Null before the extraction
  nearestLocation,  \* the result of findNearestLocation, NotComputed before
  fnUser,           \* findNearestLocation on its own: the user coordinates,
  fnRegistry,       \*   the registry,
  fnResult          \*   and the result, NotComputed before the call

vars == <<entry, event, pc, outcome, response, geoCalls, shopifyCalls, geoReply,
          shopifyReply, userCoordinates, inventoryLevels, nearestLocation,
          fnUser, fnRegistry, fnResult>>

NotComputed == [pending |-> TRUE]

\* the handler's inventoryLevels once the extraction has run
Extracted(levels) == [records |-> levels]

Response(status, body) == [statusCode |-> status, body |-> body]
ErrorBody(text) == [error |-> text]

\* what the handler's tail leaves: the response or the exception, and the locals
Tail_(out, resp, levels, nearest) ==
  [outcome |-> out, response |-> resp, inventoryLevels |-> levels, nearestLocation |-> nearest]

Returned(resp, levels, nearest) == Tail_("returned", resp, levels, nearest)

\* findNearestLocation as the handler calls it; with a NaN coordinate a geolib
\* that validates its input throws, one that does not returns NaN distances
NearestOrThrown(coords, geolibThrows) ==
  IF (coords.latitude = NaN \/ coords.longitude = NaN) /\ geolibThrows THEN Thrown
  ELSE findNearestLocation(coords, warehouseCoordinates)

(* checkPincode.js, from the extraction to the last return *)
NetlifySelect(product, coords, geolibThrows) ==
  LET levels == FlatMapVariants(product.variants)
      nearest == NearestOrThrown(coords, geolibThrows)
  IN IF nearest = Thrown
       THEN Returned(Response(500, ErrorBody("Server error")), Extracted(levels), NotComputed)
     ELSE IF nearest = Null
       THEN Returned(Response(404, ErrorBody("No warehouse found near the provided pincode.")),
                     Extracted(levels), nearest)
     ELSE LET availableInventory == FindAvailable(levels, nearest.pincode)
              fallbackInventory == FindFallback(levels)
          IN IF availableInventory # Undefined
               THEN Returned(Response(200,
                      [message |-> [template |-> "Estimate Delivery {date},  <br> Dispatch from {name}.",
                                    locationName |-> availableInventory.locationName]]),
                      Extracted(levels), nearest)
             ELSE IF fallbackInventory # Undefined
               THEN Returned(Response(200,
                      [message |-> [template |-> "Estimate Delivery {date}, <br> Dispatch from {name}.",
                                    locationName |-> fallbackInventory.locationName]]),
                      Extracted(levels), nearest)
             ELSE Returned(Response(200, ErrorBody("Product is out of stock at all locations.")),
                           Extracted(levels), nearest)

(* checkPincode.js, the try block from the commerce reply on *)
NetlifyAfterShopify(reply, coords, geolibThrows) ==
  LET serverError == Returned(Response(500, ErrorBody("Server error")), Null, NotComputed)
      notFound == Returned(Response(404, ErrorBody("Product not found in Shopify")), Null, NotComputed)
  IN IF reply.kind = "networkFailure" \/ ~reply.ok THEN serverError   \* axios.post rejects
     ELSE IF reply.body = EmptyBody THEN notFound                     \* !shopifyResponse.data
     ELSE IF reply.body = Unparsable \/ reply.body = ErrorObject
       THEN serverError                                               \* data.data is undefined
     ELSE IF reply.body.data.product = Null THEN notFound
     ELSE IF reply.body.data.product = MalformedProduct
       THEN serverError                                               \* product.variants is undefined
     ELSE NetlifySelect(reply.body.data.product, coords, geolibThrows)

(* part_000, from the extraction to the last return *)
Part000Select(product, coords, geolibThrows) ==
  LET levels == FlatMapVariants(product.variants)
      nearest == NearestOrThrown(coords, geolibThrows)
  IN IF nearest = Thrown
       THEN Returned(Response(500, ErrorBody("Server error")), Extracted(levels), NotComputed)
     ELSE IF nearest = Null
       THEN Returned(Response(404, ErrorBody("No warehouse found near the provided pincode.")),
                     Extracted(levels), nearest)
     ELSE LET availableInventory == FindAvailable(levels, nearest.pincode)
              fallbackInventory == FindFallback(levels)
          IN IF availableInventory # Undefined
               THEN Returned(Response(200,
                      [warehouse |-> availableInventory.locationName,
                       quantity |-> availableInventory.quantity,
                       message |-> [template |-> "Product is available at {name}.",
                                    locationName |-> availableInventory.locationName]]),
                      Extracted(levels), nearest)
             ELSE IF fallbackInventory # Undefined
               THEN Returned(Response(200,
                      [warehouse |-> fallbackInventory.locationName,
                       quantity |-> fallbackInventory.quantity,
                       message |-> [template |-> "Product is not available near your pincode but is available at {name}.",
                                    locationName |-> fallbackInventory.locationName]]),
                      Extracted(levels), nearest)
             ELSE Returned(Response(200, ErrorBody("Product is out of stock at all locations.")),
                           Extracted(levels), nearest)

(* part_000, the try block from the commerce reply on *)
Part000AfterShopify(reply, coords, geolibThrows) ==
  LET serverError == Returned(Response(500, ErrorBody("Server error")), Null, NotComputed)
  IN IF reply.kind = "networkFailure" THEN serverError                \* fetch rejects
     ELSE IF reply.body = Unparsable \/ reply.body = EmptyBody
       THEN serverError                                               \* response.json() throws
     ELSE IF ~reply.ok
       THEN Returned(Response(500, ErrorBody("result.errors || Error fetching product data")),
                     Null, NotComputed)
     ELSE IF reply.body = ErrorObject THEN serverError                \* result.data is undefined
     ELSE IF reply.body.data.product = Null
       THEN Returned(Response(404, ErrorBody("Product not found")), Null, NotComputed)
     ELSE IF reply.body.data.product = MalformedProduct
       THEN serverError                                               \* product.variants is undefined
     ELSE Part000Select(reply.body.data.product, coords, geolibThrows)

(* ------------------------------------------------------------------ *)
(* The request: one action per stretch of the handler between awaits.   *)
(* ------------------------------------------------------------------ *)
Finish(t) ==
  /\ pc' = "done"
  /\ outcome' = t.outcome
  /\ response' = t.response
  /\ inventoryLevels' = t.inventoryLevels
  /\ nearestLocation' = t.nearestLocation

MissingInput == Returned(Response(400, ErrorBody("Missing pincode or productId")), Null, NotComputed)

\* checkPincode.js: the preflight answer, the parameter check, the lookup issued
NetlifyInvokeWith(ev) ==
  /\ entry' = "netlify"
  /\ event' = ev
  /\ UNCHANGED <<geoReply, shopifyReply, shopifyCalls, userCoordinates, fnUser, fnRegistry, fnResult>>
  /\ LET q == IF ev.queryStringParameters = Null THEN [x \in {} |-> Undefined]
              ELSE ev.queryStringParameters
     IN IF ev.httpMethod = "OPTIONS"
          THEN /\ Finish(Returned(Response(204, EmptyBody), Null, NotComputed))
               /\ UNCHANGED geoCalls
        ELSE IF Falsy(Field(q, "pincode")) \/ Falsy(Field(q, "productId"))
          THEN /\ Finish(MissingInput)
               /\ UNCHANGED geoCalls
        ELSE /\ pc' = "geocoding"
             /\ geoCalls' = geoCalls + 1
             /\ UNCHANGED <<outcome, response, inventoryLevels, nearestLocation>>

NetlifyInvoke == pc = "idle" /\ \E ev \in Events : NetlifyInvokeWith(ev)

\* checkPincode.js: the lookup has answered; null ends the request with 404,
\* coordinates issue the commerce query
NetlifyGeocodedWith(reply) ==
  /\ geoReply' = reply
  /\ UNCHANGED <<entry, event, geoCalls, shopifyReply, fnUser, fnRegistry, fnResult>>
  /\ LET coords == getCoordinatesFromPincode(reply)
     IN IF coords = Null
          THEN /\ Finish(Returned(Response(404, ErrorBody("Invalid pincode. No coordinates found.")),
                                  Null, NotComputed))
               /\ UNCHANGED <<userCoordinates, shopifyCalls>>
        ELSE /\ userCoordinates' = coords
             /\ pc' = "shopify"
             /\ shopifyCalls' = shopifyCalls + 1
             /\ UNCHANGED <<outcome, response, inventoryLevels, nearestLocation>>

NetlifyGeocoded ==
  pc = "geocoding" /\ entry = "netlify" /\ \E reply \in GeoReplies : NetlifyGeocodedWith(reply)

\* checkPincode.js: the commerce query has answered; the rest of the try block
NetlifyShopifyRepliedWith(reply, geolibThrows) ==
  /\ shopifyReply' = reply
  /\ Finish(NetlifyAfterShopify(reply, userCoordinates, geolibThrows))
  /\ UNCHANGED <<entry, event, geoCalls, shopifyCalls, geoReply, userCoordinates,
                 fnUser, fnRegistry, fnResult>>

NetlifyShopifyReplied ==
  /\ pc = "shopify"
  /\ entry = "netlify"
  /\ \E reply \in ShopifyReplies, geolibThrows \in BOOLEAN :
       NetlifyShopifyRepliedWith(reply, geolibThrows)

\* part_000: the parameters are destructured outside the try block, from
\* event.queryStringParameters as it is
Part000InvokeWith(ev) ==
  /\ entry' = "part000"
  /\ event' = ev
  /\ UNCHANGED <<geoReply, shopifyReply, shopifyCalls, userCoordinates, fnUser, fnRegistry, fnResult>>
  /\ IF ev.queryStringParameters = Null
       THEN /\ Finish(Tail_("threw", Null, Null, NotComputed))      \* TypeError
            /\ UNCHANGED geoCalls
     ELSE IF Falsy(Field(ev.queryStringParameters, "pincode"))
               \/ Falsy(Field(ev.queryStringParameters, "productId"))
       THEN /\ Finish(MissingInput)
            /\ UNCHANGED geoCalls
     ELSE /\ pc' = "geocoding"
          /\ geoCalls' = geoCalls + 1
          /\ UNCHANGED <<outcome, response, inventoryLevels, nearestLocation>>

Part000Invoke == pc = "idle" /\ \E ev \in Events : Part000InvokeWith(ev)

\* part_000: the lookup has answered; a rethrown failure is caught by the handler
Part000GeocodedWith(reply) ==
  /\ geoReply' = reply
  /\ UNCHANGED <<entry, event, geoCalls, shopifyReply, fnUser, fnRegistry, fnResult>>
  /\ LET coords == Part000_getCoordinatesFromPincode(reply)
     IN IF coords = Thrown
          THEN /\ Finish(Returned(Response(500, ErrorBody("Server error")), Null, NotComputed))
               /\ UNCHANGED <<userCoordinates, shopifyCalls>>
        ELSE /\ userCoordinates' = coords
             /\ pc' = "shopify"
             /\ shopifyCalls' = shopifyCalls + 1
             /\ UNCHANGED <<outcome, response, inventoryLevels, nearestLocation>>

Part000Geocoded ==
  pc = "geocoding" /\ entry = "part000" /\ \E reply \in GeoReplies : Part000GeocodedWith(reply)

\* part_000: the commerce query has answered; the rest of the try block
Part000ShopifyRepliedWith(reply, geolibThrows) ==
  /\ shopifyReply' = reply
  /\ Finish(Part000AfterShopify(reply, userCoordinates, geolibThrows))
  /\ UNCHANGED <<entry, event, geoCalls, shopifyCalls, geoReply, userCoordinates,
                 fnUser, fnRegistry, fnResult>>

Part000ShopifyReplied ==
  /\ pc = "shopify"
  /\ entry = "part000"
  /\ \E reply \in ShopifyReplies, geolibThrows \in BOOLEAN :
       Part000ShopifyRepliedWith(reply, geolibThrows)

Init ==
  /\ entry = "none"
  /\ event = Null
  /\ pc = "idle"
  /\ outcome = "pending"
  /\ response = Null
  /\ geoCalls = 0
  /\ shopifyCalls = 0
  /\ geoReply = Null
  /\ shopifyReply = Null
  /\ userCoordinates = Null
  /\ inventoryLevels = Null
  /\ nearestLocation = NotComputed
  /\ fnUser = Null
  /\ fnRegistry = Null
  /\ fnResult = NotComputed

Next ==
  \/ NetlifyInvoke
  \/ NetlifyGeocoded
  \/ NetlifyShopifyReplied
  \/ Part000Invoke
  \/ Part000Geocoded
  \/ Part000ShopifyReplied

Spec == Init /\ [][Next]_vars

(* ------------------------------------------------------------------ *)
(* findNearestLocation on its own, over every registry of up to three   *)
(* warehouses on a grid and every user coordinate of the grid.          *)
(* ------------------------------------------------------------------ *)
Grid == {Coords(x, y) : x \in 0..GridMax, y \in 0..GridMax}

RegistryKeys == {110042, 131028, 382213}

Registries == UNION {[ks -> Grid] : ks \in SUBSET RegistryKeys}

FnInit ==
  /\ entry = "none"
  /\ event = Null
  /\ pc = "idle"
  /\ outcome = "pending"
  /\ response = Null
  /\ geoCalls = 0
  /\ shopifyCalls = 0
  /\ geoReply = Null
  /\ shopifyReply = Null
  /\ userCoordinates = Null
  /\ inventoryLevels = Null
  /\ nearestLocation = NotComputed
  /\ fnUser \in Grid
  /\ fnRegistry \in Registries
  /\ fnResult = NotComputed

FindNearestCall ==
  /\ fnResult = NotComputed
  /\ fnResult' = findNearestLocation(fnUser, fnRegistry)
  /\ UNCHANGED <<entry, event, pc, outcome, response, geoCalls, shopifyCalls, geoReply,
                 shopifyReply, userCoordinates, inventoryLevels, nearestLocation,
                 fnUser, fnRegistry>>

FnNext == FindNearestCall

SpecNearest == FnInit /\ [][FnNext]_vars

(* ------------------------------------------------------------------ *)
(* Properties.                                                          *)
(* ------------------------------------------------------------------ *)
Done == pc = "done"

\* the request reached the selection: records extracted, a nearest warehouse found
Selected ==
  /\ Done
  /\ inventoryLevels # Null
  /\ nearestLocation # NotComputed
  /\ nearestLocation # Null

\* record i is a stocked record of the nearest warehouse
NearestStocked(i) ==
  /\ MapsTo(inventoryLevels.records[i].locationName, nearestLocation.pincode)
  /\ inventoryLevels.records[i].quantity > 0

Stocked(i) == inventoryLevels.records[i].quantity > 0

Records == 1..Len(inventoryLevels.records)

PrimaryTemplates ==
  {"Estimate Delivery {date},  <br> Dispatch from {name}.", "Product is available at {name}."}

FallbackTemplates ==
  {"Estimate Delivery {date}, <br> Dispatch from {name}.",
   "Product is not available near your pincode but is available at {name}."}

\* the response is a 200 whose message, of one of the templates, names the record
\* (part_000 also carries the record's warehouse and quantity)
Dispatches(templates, rec) ==
  /\ outcome = "returned"
  /\ response.statusCode = 200
  /\ "message" \in DOMAIN response.body
  /\ "error" \notin DOMAIN response.body
  /\ response.body.message.template \in templates
  /\ response.body.message.locationName = rec.locationName
  /\ entry = "part000" =>
       /\ response.body.warehouse = rec.locationName
       /\ response.body.quantity = rec.quantity

\* C1: whenever some record of the nearest warehouse has stock, the response is
\* the primary (Fulfilled) one and names the first such record of the sequence,
\* wherever stocked records of other warehouses stand
C1_FulfilledAtNearest ==
  (Selected /\ \E i \in Records : NearestStocked(i)) =>
    LET first == CHOOSE i \in Records :
                   NearestStocked(i) /\ \A j \in 1..(i - 1) : ~NearestStocked(j)
    IN Dispatches(PrimaryTemplates, inventoryLevels.records[first])

\* C1 happens: a stocked record of another warehouse stands before the nearest
\* warehouse's stocked record, and the response is the primary one
C1_Witness ==
  /\ Selected
  /\ \E i, j \in Records :
       /\ i < j
       /\ Stocked(i) /\ ~NearestStocked(i)
       /\ NearestStocked(j)
       /\ inventoryLevels.records[i].locationName # inventoryLevels.records[j].locationName
  /\ outcome = "returned"
  /\ response.statusCode = 200
  /\ "message" \in DOMAIN response.body
  /\ response.body.message.template \in PrimaryTemplates

\* C2: whenever no record of the nearest warehouse has stock and some other
\* record has, the response is the fallback one, naming the first stocked record
C2_FallbackWhenNearestEmpty ==
  (Selected /\ (\A i \in Records : ~NearestStocked(i)) /\ (\E i \in Records : Stocked(i))) =>
    LET first == CHOOSE i \in Records : Stocked(i) /\ \A j \in 1..(i - 1) : ~Stocked(j)
    IN Dispatches(FallbackTemplates, inventoryLevels.records[first])

\* C2 happens: the nearest warehouse has a record with quantity 0, another
\* warehouse has stock, and the response is the fallback one
C2_Witness ==
  /\ Selected
  /\ \E i, j \in Records :
       /\ i < j
       /\ MapsTo(inventoryLevels.records[i].locationName, nearestLocation.pincode)
       /\ inventoryLevels.records[i].quantity = 0
       /\ Stocked(j)
  /\ \A i \in Records : ~NearestStocked(i)
  /\ outcome = "returned"
  /\ response.statusCode = 200
  /\ "message" \in DOMAIN response.body
  /\ response.body.message.template \in FallbackTemplates

\* the lookup gave coordinates that are numbers
GeocodingSucceeded ==
  /\ userCoordinates # Null
  /\ userCoordinates.latitude # NaN
  /\ userCoordinates.longitude # NaN

\* the commerce reply is a 2xx response holding a product with its variants
ProductExists ==
  /\ shopifyReply # Null
  /\ shopifyReply.kind = "http"
  /\ shopifyReply.ok
  /\ "data" \in DOMAIN shopifyReply.body
  /\ "variants" \in DOMAIN shopifyReply.body.data.product

UpstreamVariants == shopifyReply.body.data.product.variants

\* the upstream "available" quantity of a level, 0 when the entry is absent
UpstreamQuantity(level) == IF level.quantities = <<>> THEN 0 ELSE level.quantities[1]

\* C5: with no upstream level of quantity > 0 (an empty inventory too), after
\* a successful geocoding and for an existing product, the response is 200 with
\* an error field and no message
C5_OutOfStock ==
  ( /\ Done
    /\ GeocodingSucceeded
    /\ ProductExists
    /\ \A v \in 1..Len(UpstreamVariants) :
         \A l \in 1..Len(UpstreamVariants[v].inventoryLevels) :
           UpstreamQuantity(UpstreamVariants[v].inventoryLevels[l]) <= 0 ) =>
    /\ outcome = "returned"
    /\ response.statusCode = 200
    /\ "error" \in DOMAIN response.body
    /\ "message" \notin DOMAIN response.body

\* C5 happens: levels are there, none with stock, and the answer is out of stock
C5_Witness ==
  /\ Done
  /\ GeocodingSucceeded
  /\ ProductExists
  /\ inventoryLevels # Null
  /\ Len(inventoryLevels.records) >= 2
  /\ \A i \in Records : ~Stocked(i)
  /\ response = Response(200, ErrorBody("Product is out of stock at all locations."))

\* the levels of the variants before variant v
RECURSIVE LevelsBefore(_)
LevelsBefore(v) ==
  IF v <= 1 THEN 0 ELSE LevelsBefore(v - 1) + Len(UpstreamVariants[v - 1].inventoryLevels)

\* C9: the extraction gives one record per level of every variant, in upstream
\* order (level l of variant v at position LevelsBefore(v) + l), with the
\* upstream name and quantity, 0 for an absent quantity, repeated names unmerged
C9_ExtractionFlattens ==
  (Done /\ inventoryLevels # Null) =>
    /\ Len(inventoryLevels.records) = LevelsBefore(Len(UpstreamVariants) + 1)
    /\ \A v \in 1..Len(UpstreamVariants) :
         \A l \in 1..Len(UpstreamVariants[v].inventoryLevels) :
           LET level == UpstreamVariants[v].inventoryLevels[l]
               rec == inventoryLevels.records[LevelsBefore(v) + l]
           IN /\ rec.locationName = level.locationName
              /\ rec.quantity = UpstreamQuantity(level)

\* C9 happens: two variants hold three levels, one location name is repeated
\* across the variants and one quantity is absent
C9_Witness ==
  /\ Done
  /\ inventoryLevels # Null
  /\ Len(UpstreamVariants) = 2
  /\ Len(inventoryLevels.records) = 3
  /\ \E l \in 1..Len(UpstreamVariants[1].inventoryLevels),
        m \in 1..Len(UpstreamVariants[2].inventoryLevels) :
       /\ UpstreamVariants[1].inventoryLevels[l].locationName
            = UpstreamVariants[2].inventoryLevels[m].locationName
       /\ UpstreamVariants[2].inventoryLevels[m].quantities = <<>>

\* a call that failed: a network failure or a non-2xx response
Failed(reply) == reply # Null /\ (reply.kind = "networkFailure" \/ ~reply.ok)

ErrorOutcome ==
  /\ outcome = "returned"
  /\ response.statusCode \in {404, 500}
  /\ "error" \in DOMAIN response.body

C10_WitnessLookup == Done /\ Failed(geoReply) /\ shopifyCalls = 0

\* the lookup answered with zero matches
ZeroMatches ==
  /\ geoReply # Null
  /\ geoReply.kind = "http"
  /\ geoReply.ok
  /\ "matches" \in DOMAIN geoReply.body
  /\ geoReply.body.matches = <<>>

\* C6: zero matches for the postal code end the request with a 400 or 404
\* response, not a 500, and no commerce query is issued
C6_UnresolvableIsInvalidInput ==
  ZeroMatches =>
    /\ Done
    /\ outcome = "returned"
    /\ response.statusCode \in {400, 404}
    /\ shopifyCalls = 0

\* the request lacks the pincode or the productId, or the parameters object
MissingParameter ==
  \/ event.queryStringParameters = Null
  \/ Falsy(Field(event.queryStringParameters, "pincode"))
  \/ Falsy(Field(event.queryStringParameters, "productId"))

\* C7: a request that is no preflight and lacks the pincode or the productId
\* (or the whole parameters object) gets the 400 "Missing pincode or productId"
\* and neither outbound call is issued
C7_MissingParameterIsRejected ==
  (entry # "none" /\ event.httpMethod # "OPTIONS" /\ MissingParameter) =>
    /\ Done
    /\ outcome = "returned"
    /\ response = Response(400, ErrorBody("Missing pincode or productId"))
    /\ geoCalls = 0
    /\ shopifyCalls = 0

\* C8: every request ends with a returned response object that has a status
\* code and a body, never with an exception leaving the handler
C8_NoFailurePropagates ==
  Done =>
    /\ outcome = "returned"
    /\ response # Null
    /\ response.statusCode \in {200, 204, 400, 404, 500}

(* ---------------- findNearestLocation on its own ---------------- *)
Called == fnResult # NotComputed

Distance(k) == getDistance(fnUser, fnRegistry[k]).num

C4_FirstMinimumWins ==
  (Called /\ DOMAIN fnRegistry # {}) =>
    LET es == ObjectEntries(fnRegistry)
    IN \E i \in 1..Len(es) :
         /\ es[i].pincode = fnResult.pincode
         /\ \A j \in 1..(i - 1) : Distance(es[j].pincode) # Distance(es[i].pincode)

\* C4 happens: two warehouses at different places are at the same minimal
\* distance, a third is farther, and the earlier of the two is returned
C4_Witness ==
  /\ Called
  /\ DOMAIN fnRegistry = RegistryKeys
  /\ Distance(131028) = Distance(382213)
  /\ fnRegistry[131028] # fnRegistry[382213]
  /\ Distance(110042) > Distance(131028)
  /\ fnResult.pincode = 131028

====
